---- MODULE Spec2Model ----
(***************************************************************************)
(* Model of the earthquake-alerts alert-decision pipeline:                 *)
(* Orchestrator.process() (src/src/orchestrator.py) with the pure core it  *)
(* calls (earthquake parsing, dedup, rules) and the outcomes of the shell  *)
(* clients it depends on (USGS feed, Firestore seen-id store, Slack,       *)
(* Twitter, WhatsApp, static map).                                         *)
(*                                                                         *)
(* Units: magnitudes are tenths (42 = M4.2), latitudes and longitudes are  *)
(* tenths of a degree, distances are tenths of a kilometre.  An optional   *)
(* value (Python None) is the empty sequence, a present value v is <<v>>.  *)
(***************************************************************************)
EXTENDS Integers, Sequences, FiniteSets, TLC

\* ------------------------------------------------------------------ bounds
\* longest feed (number of GeoJSON features) a fetch returns
MaxFeed == 2
\* longest feed when two runs overlap
MaxFeedOverlap == 1
\* most alerts recorded in one rate-limit state
MaxAlerts == 3
\* largest limit of a rate-limit configuration
MaxLimit == 2
\* longest event list handed to a core function
MaxEvents == 2
\* largest max_stored handed to compute_ids_to_expire
MaxStored == 2
\* longest place string of an event handed to the tweet formatter
MaxPlace == 300
\* most recipients of a group message, most tweets of a batch
MaxBatch == 3

\* ------------------------------------------------------------ optionals
None == <<>>
Some(v) == <<v>>
IsNone(o) == o = <<>>
Val(o) == o[1]

\* -------------------------------------------------------- the feed records
\* Raw GeoJSON features the USGS feed can return.  "f1" and "f3" carry the
\* same event id (an updated record of one event); "f4" has no magnitude, so
\* it does not parse; "f2" and "f5" share one timestamp.
Feature(name) ==
    CASE name = "f1" -> [id |-> "ev1", mag |-> Some(42), time |-> Some(30),
                         coords |-> <<-1224, 377, 10>>, tsunami |-> 0, felt |-> None]
      [] name = "f2" -> [id |-> "ev2", mag |-> Some(20), time |-> Some(20),
                         coords |-> <<0, 500, 5>>, tsunami |-> 1, felt |-> None]
      [] name = "f3" -> [id |-> "ev1", mag |-> Some(43), time |-> Some(10),
                         coords |-> <<-1224, 377, 10>>, tsunami |-> 0, felt |-> None]
      [] name = "f4" -> [id |-> "ev3", mag |-> None, time |-> Some(40),
                         coords |-> <<-1224, 377, 10>>, tsunami |-> 0, felt |-> None]
      [] name = "f5" -> [id |-> "ev3", mag |-> Some(25), time |-> Some(20),
                         coords |-> <<-1215, 370, 8>>, tsunami |-> 0, felt |-> Some(12)]

FeatureNames == {"f1", "f2", "f3", "f4", "f5"}

Ids == {"ev1", "ev2", "ev3"}

RECURSIVE SeqsUpTo(_, _)
SeqsUpTo(S, n) ==
    IF n = 0 THEN {<<>>}
    ELSE LET shorter == SeqsUpTo(S, n - 1)
         IN  shorter \cup {Append(s, x) : s \in {t \in shorter : Len(t) = n - 1}, x \in S}

\* the GeoJSON "features" lists a fetch can return
Feeds(n) == {[i \in 1..Len(s) |-> Feature(s[i])] : s \in SeqsUpTo(FeatureNames, n)}

\* ------------------------------------------------------- core/earthquake.py
parse_earthquake(feature) ==
    IF Len(feature.coords) < 3 THEN None
    ELSE IF IsNone(feature.time) THEN None
    ELSE IF IsNone(feature.mag) THEN None
    ELSE Some([id        |-> feature.id,
               magnitude |-> Val(feature.mag),
               time      |-> Val(feature.time),
               longitude |-> feature.coords[1],
               latitude  |-> feature.coords[2],
               depth_km  |-> feature.coords[3],
               felt      |-> feature.felt,
               tsunami   |-> feature.tsunami # 0])

\* sorted(..., key=time, reverse=True): a stable sort, so records with equal
\* times keep their feed order
RECURSIVE InsertByTimeDesc(_, _)
InsertByTimeDesc(e, sorted) ==
    IF sorted = <<>> THEN <<e>>
    ELSE IF Head(sorted).time >= e.time
         THEN <<Head(sorted)>> \o InsertByTimeDesc(e, Tail(sorted))
         ELSE <<e>> \o sorted

RECURSIVE SortByTimeDesc(_)
SortByTimeDesc(s) ==
    IF s = <<>> THEN <<>>
    ELSE InsertByTimeDesc(s[Len(s)], SortByTimeDesc(SubSeq(s, 1, Len(s) - 1)))

RECURSIVE ParseAll(_)
ParseAll(features) ==
    IF features = <<>> THEN <<>>
    ELSE LET p == parse_earthquake(Head(features))
         IN  (IF IsNone(p) THEN <<>> ELSE <<Val(p)>>) \o ParseAll(Tail(features))

\* mutant: the parsed events are returned in feed order
parse_earthquakes_unsorted(features) == ParseAll(features)

parse_earthquakes(features) == SortByTimeDesc(ParseAll(features))

\* ---------------------------------------------------------------- core/geo.py
\* Points of interest of the configuration
Office == [name |-> "Office", latitude |-> 378, longitude |-> -1220, alert_radius_km |-> 500]

\* Haversine distance (Earth radius 6371 km) in tenths of a kilometre,
\* tabulated for the coordinates of the feed records and the configured
\* point of interest.
calculate_distance(lat1, lon1, lat2, lon2) ==
    IF lat1 = lat2 /\ lon1 = lon2 THEN 0
    ELSE CASE <<lat1, lon1, lat2, lon2>> = <<377, -1224, 378, -1220>> -> 369
           [] <<lat1, lon1, lat2, lon2>> = <<500, 0, 378, -1220>>     -> 87223
           [] <<lat1, lon1, lat2, lon2>> = <<370, -1215, 378, -1220>> -> 993

is_within_bounds(earthquake, bounds) ==
    /\ bounds.min_latitude <= earthquake.latitude
    /\ earthquake.latitude <= bounds.max_latitude
    /\ bounds.min_longitude <= earthquake.longitude
    /\ earthquake.longitude <= bounds.max_longitude

is_within_radius(earthquake, center_lat, center_lon, radius_km) ==
    calculate_distance(earthquake.latitude, earthquake.longitude,
                       center_lat, center_lon) <= radius_km

\* -------------------------------------------------------------- core/rules.py
matches_magnitude_rule(earthquake, rule) ==
    IF earthquake.magnitude < rule.min_magnitude THEN FALSE
    ELSE IF ~IsNone(rule.max_magnitude) /\ earthquake.magnitude > Val(rule.max_magnitude)
         THEN FALSE
    ELSE TRUE

matches_location_rule(earthquake, rule) ==
    IF IsNone(rule.bounds) /\ rule.points_of_interest = <<>> THEN TRUE
    ELSE IF ~IsNone(rule.bounds) /\ is_within_bounds(earthquake, Val(rule.bounds)) THEN TRUE
    ELSE \E i \in 1..Len(rule.points_of_interest) :
            LET poi == rule.points_of_interest[i]
            IN  is_within_radius(earthquake, poi.latitude, poi.longitude,
                                 poi.alert_radius_km)

\* mutant: the felt reports must exceed the threshold
matches_special_conditions_above(earthquake, rule) ==
    IF rule.alert_on_tsunami /\ earthquake.tsunami THEN TRUE
    ELSE IF rule.alert_on_felt
         THEN LET felt == IF IsNone(earthquake.felt) THEN 0 ELSE Val(earthquake.felt)
              IN  felt > rule.felt_threshold
    ELSE FALSE

matches_special_conditions(earthquake, rule) ==
    IF rule.alert_on_tsunami /\ earthquake.tsunami THEN TRUE
    ELSE IF rule.alert_on_felt
         THEN LET felt == IF IsNone(earthquake.felt) THEN 0 ELSE Val(earthquake.felt)
              IN  felt >= rule.felt_threshold
    ELSE FALSE

evaluate_rule(earthquake, rule) ==
    IF matches_special_conditions(earthquake, rule)
    THEN matches_location_rule(earthquake, rule)
    ELSE matches_magnitude_rule(earthquake, rule) /\ matches_location_rule(earthquake, rule)

evaluate_rules(earthquake, channels) ==
    SelectSeq(channels, LAMBDA channel : evaluate_rule(earthquake, channel.rules))

\* mutant: a decision is made for every event, matching or not
RECURSIVE make_alert_decisions_for_all(_, _)
make_alert_decisions_for_all(earthquakes, channels) ==
    IF earthquakes = <<>> THEN <<>>
    ELSE <<[earthquake |-> Head(earthquakes),
            channels |-> evaluate_rules(Head(earthquakes), channels)]>>
         \o make_alert_decisions_for_all(Tail(earthquakes), channels)

\* mutant: a decision keeps the first matching channel only
RECURSIVE make_alert_decisions_first_channel(_, _)
make_alert_decisions_first_channel(earthquakes, channels) ==
    IF earthquakes = <<>> THEN <<>>
    ELSE LET matching_channels == evaluate_rules(Head(earthquakes), channels)
             rest == make_alert_decisions_first_channel(Tail(earthquakes), channels)
         IN  IF matching_channels # <<>>
             THEN <<[earthquake |-> Head(earthquakes),
                     channels |-> <<Head(matching_channels)>>]>> \o rest
             ELSE rest

RECURSIVE make_alert_decisions(_, _)
make_alert_decisions(earthquakes, channels) ==
    IF earthquakes = <<>> THEN <<>>
    ELSE LET matching_channels == evaluate_rules(Head(earthquakes), channels)
             rest == make_alert_decisions(Tail(earthquakes), channels)
         IN  IF matching_channels # <<>>
             THEN <<[earthquake |-> Head(earthquakes), channels |-> matching_channels]>> \o rest
             ELSE rest

\* -------------------------------------------------------------- core/dedup.py
\* mutant: no event is filtered out
filter_already_alerted_none(earthquakes, already_alerted_ids) == earthquakes

\* mutant: the membership test is inverted
filter_already_alerted_seen(earthquakes, already_alerted_ids) ==
    SelectSeq(earthquakes, LAMBDA e : e.id \in already_alerted_ids)

filter_already_alerted(earthquakes, already_alerted_ids) ==
    SelectSeq(earthquakes, LAMBDA e : e.id \notin already_alerted_ids)

compute_ids_to_store(successfully_alerted) ==
    {successfully_alerted[i].id : i \in 1..Len(successfully_alerted)}

\* mutant: the excess is taken from all the stored ids
compute_ids_to_expire_of_stored(stored_ids, current_earthquake_ids, max_stored) ==
    IF Cardinality(stored_ids) <= max_stored THEN {{}}
    ELSE LET excess == Cardinality(stored_ids) - max_stored
         IN  {ids \in SUBSET stored_ids : Cardinality(ids) = excess}

\* mutant: the limit is compared with the number of expirable ids
compute_ids_to_expire_pool_limit(stored_ids, current_earthquake_ids, max_stored) ==
    LET expirable == stored_ids \ current_earthquake_ids
    IN  IF Cardinality(expirable) <= max_stored THEN {{}}
        ELSE LET excess == Cardinality(stored_ids) - max_stored
                 taken == IF excess < Cardinality(expirable)
                          THEN excess ELSE Cardinality(expirable)
             IN  {ids \in SUBSET expirable : Cardinality(ids) = taken}

\* compute_ids_to_expire: the sets the call can return.  list(expirable)
\* lists a set in an order the language does not fix, so the slice
\* [:excess] can be any "excess" of the expirable ids, or all of them when
\* there are no more than that.
compute_ids_to_expire(stored_ids, current_earthquake_ids, max_stored) ==
    LET expirable == stored_ids \ current_earthquake_ids
    IN  IF Cardinality(stored_ids) <= max_stored THEN {{}}
        ELSE LET excess == Cardinality(stored_ids) - max_stored
                 taken == IF excess < Cardinality(expirable)
                          THEN excess ELSE Cardinality(expirable)
             IN  {ids \in SUBSET expirable : Cardinality(ids) = taken}

\* --------------------------------------------------------------- api/main.py
\* The locale cache of the API service.  A locale is held by its slug and
\* its name; a mapping is a function from a set of slugs.
Slugs == {"sanramon", "tokyo"}
LocaleNames == {"name1", "name2"}
CACHE_TTL_SECONDS == 300
\* FALLBACK_LOCALES = _load_fallback_locale(): one locale
FALLBACK_LOCALES == [slug \in {"sanramon"} |-> [name |-> "San Ramon"]]

_is_cache_valid(a) ==
    IF DOMAIN a._locale_cache = {} THEN FALSE
    ELSE a.now - a._cache_timestamp < CACHE_TTL_SECONDS

\* _refresh_locale_cache: without a client, or when the read raises, the
\* cache is left as it is; so it is when no document is active
_refresh_locale_cache(a, reachable) ==
    IF ~reachable THEN a
    ELSE LET new_cache ==
                 [slug \in {d \in DOMAIN a.locales : a.locales[d].is_active}
                     |-> [name |-> a.locales[slug].name]]
         IN  IF DOMAIN new_cache # {}
             THEN [a EXCEPT !._locale_cache = new_cache, !._cache_timestamp = a.now]
             ELSE a

_invalidate_cache(a) == [a EXCEPT !._cache_timestamp = 0]

\* _get_locales: the service after the call and the mapping returned
_get_locales(a, reachable) ==
    LET after == IF ~_is_cache_valid(a) THEN _refresh_locale_cache(a, reachable) ELSE a
    IN  [api |-> after,
         returned |-> IF DOMAIN after._locale_cache # {} THEN after._locale_cache
                      ELSE FALLBACK_LOCALES]

\* ---------------------------------------------------------- core/formatter.py
\* format_twitter_message works on the lengths of its strings only, so a
\* string is held by its length: a concatenation is a sum, a slice s[:n] is
\* the smaller of len(s) and n.
TweetLimit == 280
\* len("https://earthquake.city/sanramon?from=alert")
CityLinkLen == 43

\* number of decimal digits of a natural number
Digits(n) ==
    IF n < 10 THEN 1 ELSE IF n < 100 THEN 2 ELSE IF n < 1000 THEN 3
    ELSE IF n < 10000 THEN 4 ELSE 5

Smaller(a, b) == IF a <= b THEN a ELSE b

\* len(sep.join(parts)) for parts given by their lengths
RECURSIVE JoinLen(_, _)
JoinLen(parts, sep) ==
    IF parts = <<>> THEN 0
    ELSE IF Len(parts) = 1 THEN parts[1]
    ELSE parts[1] + sep + JoinLen(Tail(parts), sep)

\* the lines of the tweet before the links: headline, special alerts, info
TweetLines(earthquake, nearby_pois) ==
    LET magnitude_prefix == IF earthquake.magnitude >= 60 THEN 6      \* "MAJOR "
                            ELSE IF earthquake.magnitude >= 50 THEN 7 \* "STRONG "
                            ELSE 0
        \* "M{magnitude:.1f} earthquake - {place}"
        headline == magnitude_prefix + 1 + (Digits(earthquake.magnitude \div 10) + 2)
                      + 14 + earthquake.place
        special_parts ==
            (IF earthquake.tsunami THEN <<15>> ELSE <<>>)         \* "TSUNAMI WARNING"
            \o (IF earthquake.alert = Some("orange") THEN <<13>>  \* "PAGER: ORANGE"
                ELSE IF earthquake.alert = Some("red") THEN <<10>>
                ELSE <<>>)
            \o (IF ~IsNone(earthquake.felt) /\ Val(earthquake.felt) >= 100
                THEN IF Val(earthquake.felt) >= 1000
                     \* "Felt by {felt:,}+ people"
                     THEN <<8 + Digits(Val(earthquake.felt)) + 1 + 8>>
                     ELSE <<8 + Digits(Val(earthquake.felt)) + 8>>
                ELSE <<>>)
        info_parts ==
            <<7 + Digits(earthquake.depth_km) + 2>>               \* "Depth: {d:.0f}km"
            \o (IF nearby_pois # <<>>
                \* "{distance:.0f}km from {name}"
                THEN <<Digits(nearby_pois[1][2]) + 8 + nearby_pois[1][1].name>>
                ELSE <<>>)
    IN  <<headline>>
        \o (IF special_parts # <<>> THEN <<JoinLen(special_parts, 3)>> ELSE <<>>)
        \o <<JoinLen(info_parts, 3)>>

\* the tweet after the links were added where they fit
TweetWithLinks(lines, usgs_link) ==
    LET tweet == JoinLen(lines, 1)
        tweet_with_city == tweet + 1 + CityLinkLen
    IN  IF tweet_with_city <= TweetLimit
        THEN IF usgs_link > 0 /\ tweet_with_city + 1 + usgs_link <= TweetLimit
             THEN tweet_with_city + 1 + usgs_link
             ELSE tweet_with_city
        ELSE IF usgs_link > 0 /\ tweet + 1 + usgs_link <= TweetLimit
        THEN tweet + 1 + usgs_link
        ELSE tweet

\* mutant: the headline is cut without leaving room for "..." and the newline
format_twitter_message_no_room(earthquake, nearby_pois) ==
    LET lines == TweetLines(earthquake, nearby_pois)
        tweet == TweetWithLinks(lines, earthquake.url)
    IN  IF tweet > TweetLimit
        THEN LET max_headline_len == TweetLimit - JoinLen(Tail(lines), 1)
             IN  IF max_headline_len > 20
                 THEN JoinLen(<<Smaller(lines[1], max_headline_len) + 3>> \o Tail(lines), 1)
                 ELSE Smaller(tweet, 277) + 3
        ELSE tweet

\* format_twitter_message: the length of the tweet it returns
format_twitter_message(earthquake, nearby_pois) ==
    LET lines == TweetLines(earthquake, nearby_pois)
        tweet == TweetWithLinks(lines, earthquake.url)
    IN  IF tweet > TweetLimit
        THEN LET max_headline_len == TweetLimit - JoinLen(Tail(lines), 1) - 4
             IN  IF max_headline_len > 20
                 THEN JoinLen(<<Smaller(lines[1], max_headline_len) + 3>> \o Tail(lines), 1)
                 ELSE Smaller(tweet, 277) + 3
        ELSE tweet

\* --------------------------------------------------------- core/rate_limit.py
\* dict.get(key, default) on a dict held as a function
Get(dict, key, default) == IF key \in DOMAIN dict THEN dict[key] ELSE default

RateLimitState(total_alerts, alerts_per_channel) ==
    [total_alerts |-> total_alerts, alerts_per_channel |-> alerts_per_channel]

RateLimitResult(allowed, reason, total_count, channel_count) ==
    [allowed |-> allowed, reason |-> reason,
     total_count |-> total_count, channel_count |-> channel_count]

\* the two reason texts, with the values they are formatted from
GlobalReason(state, config) ==
    Some(<<"Global limit exceeded", state.total_alerts, config.max_alerts_per_run>>)
ChannelReason(channel_name, channel_count, config) ==
    Some(<<"Channel limit exceeded for", channel_name, channel_count,
           config.max_alerts_per_channel>>)

\* mutant: the per-channel limit is checked before the global one
check_rate_limit_channel_first(channel_name, state, config) ==
    LET channel_count == Get(state.alerts_per_channel, channel_name, 0)
    IN  IF config.max_alerts_per_channel > 0
           /\ channel_count >= config.max_alerts_per_channel
        THEN RateLimitResult(FALSE, ChannelReason(channel_name, channel_count, config),
                             state.total_alerts, channel_count)
        ELSE IF config.max_alerts_per_run > 0
                /\ state.total_alerts >= config.max_alerts_per_run
        THEN RateLimitResult(FALSE, GlobalReason(state, config),
                             state.total_alerts, channel_count)
        ELSE RateLimitResult(TRUE, None, state.total_alerts, channel_count)

check_rate_limit(channel_name, state, config) ==
    LET channel_count == Get(state.alerts_per_channel, channel_name, 0)
    IN  IF config.max_alerts_per_run > 0
           /\ state.total_alerts >= config.max_alerts_per_run
        THEN RateLimitResult(FALSE, GlobalReason(state, config),
                             state.total_alerts, channel_count)
        ELSE IF config.max_alerts_per_channel > 0
                /\ channel_count >= config.max_alerts_per_channel
        THEN RateLimitResult(FALSE, ChannelReason(channel_name, channel_count, config),
                             state.total_alerts, channel_count)
        ELSE RateLimitResult(TRUE, None, state.total_alerts, channel_count)

\* the dict with key set to value
Put(dict, key, value) ==
    [k \in DOMAIN dict \cup {key} |-> IF k = key THEN value ELSE dict[k]]

\* mutant: the total is taken from the channel's count
record_alert_total_of_channel(channel_name, state) ==
    LET new_channel_counts ==
            Put(state.alerts_per_channel, channel_name,
                Get(state.alerts_per_channel, channel_name, 0) + 1)
    IN  [returned |-> RateLimitState(new_channel_counts[channel_name], new_channel_counts),
         state    |-> state]

\* mutant: the counts are incremented in the input state, which is returned
record_alert_in_place(channel_name, state) ==
    LET new_channel_counts ==
            Put(state.alerts_per_channel, channel_name,
                Get(state.alerts_per_channel, channel_name, 0) + 1)
        new_state == RateLimitState(state.total_alerts + 1, new_channel_counts)
    IN  [returned |-> new_state, state |-> new_state]

\* mutant: the new dict holds the recorded channel only
record_alert_fresh_dict(channel_name, state) ==
    LET new_channel_counts ==
            Put(<<>>, channel_name, Get(state.alerts_per_channel, channel_name, 0) + 1)
    IN  [returned |-> RateLimitState(state.total_alerts + 1, new_channel_counts),
         state    |-> state]

\* record_alert: "returned" is the new state; "state" is the argument as the
\* caller finds it after the call (the dict is copied before the increment)
record_alert(channel_name, state) ==
    LET new_channel_counts ==
            Put(state.alerts_per_channel, channel_name,
                Get(state.alerts_per_channel, channel_name, 0) + 1)
    IN  [returned |-> RateLimitState(state.total_alerts + 1, new_channel_counts),
         state    |-> state]

\* ------------------------------------------------------------ configuration
BayArea == [min_latitude |-> 360, max_latitude |-> 385,
            min_longitude |-> -1230, max_longitude |-> -1210]

TwitterKeys == {"api_key", "api_secret", "access_token", "access_token_secret"}
WhatsAppKeys == {"account_sid", "auth_token", "from_number"}

\* AlertRule defaults of core/rules.py: min_magnitude 0.0, no max_magnitude,
\* no bounds, no points of interest, alert_on_tsunami, not alert_on_felt
AlertRule(min_magnitude, bounds, points_of_interest, alert_on_felt) ==
    [min_magnitude |-> min_magnitude, max_magnitude |-> None, bounds |-> bounds,
     points_of_interest |-> points_of_interest, alert_on_tsunami |-> TRUE,
     alert_on_felt |-> alert_on_felt, felt_threshold |-> 10]

SlackChannel ==
    [name |-> "slack", channel_type |-> "slack", credentials |-> None,
     rules |-> AlertRule(30, Some(BayArea), <<>>, FALSE)]

TwitterChannel(credentials) ==
    [name |-> "twitter", channel_type |-> "twitter", credentials |-> credentials,
     rules |-> AlertRule(40, None, <<>>, FALSE)]

WhatsAppChannel(credentials) ==
    [name |-> "whatsapp", channel_type |-> "whatsapp", credentials |-> credentials,
     rules |-> AlertRule(40, None, <<Office>>, TRUE)]

Credentials(keys, to_numbers) == Some([keys |-> keys, to_numbers |-> to_numbers])

\* "not channel.credentials": None or an empty tuple
NoCredentials(channel) ==
    \/ IsNone(channel.credentials)
    \/ Val(channel.credentials).keys = {} /\ Val(channel.credentials).to_numbers = <<>>

ChannelNames == {"slack", "twitter", "whatsapp"}

\* the channel lists the configuration loader can hand to the orchestrator
ChannelLists ==
    { <<SlackChannel, TwitterChannel(Credentials(TwitterKeys, <<>>))>>,
      <<SlackChannel,
        TwitterChannel(Credentials(TwitterKeys \ {"api_secret"}, <<>>)),
        WhatsAppChannel(Credentials(WhatsAppKeys, <<"n1", "n2">>))>>,
      <<TwitterChannel(None),
        WhatsAppChannel(Credentials(WhatsAppKeys, <<>>)),
        SlackChannel>> }

\* RateLimitConfig (0 = unlimited): the configuration whose twitter channel
\* has no credential bundle is run without limits, the others with both
\* limits at 1
RateLimit(channels) ==
    IF \E i \in 1..Len(channels) : NoCredentials(channels[i]) /\ channels[i].channel_type = "twitter"
    THEN [max_alerts_per_run |-> 0, max_alerts_per_channel |-> 0]
    ELSE [max_alerts_per_run |-> 1, max_alerts_per_channel |-> 1]

Configs == {[alert_channels |-> c, rate_limit |-> RateLimit(c)] : c \in ChannelLists}

\* ------------------------------------------------------------------- state
Runs == {1, 2}

VARIABLES
    store,             \* the "ids" array of the Firestore document
    config,            \* Orchestrator.config
    run,               \* per invocation of process(): its locals and position
    delivered_before,  \* (event id, channel name) pairs delivered by finished runs
    store_fault,       \* a read or write of the store has failed so far
    limiter,           \* a rate-limit state, its configuration and the last call on it
    call,              \* the last call of a pure core function: arguments and result
    api                \* the API service: locale documents, locale cache, clock

vars == <<store, config, run, delivered_before, store_fault, limiter, call, api>>

\* no call made yet
NoCall == [op |-> "none"]

NoResult == <<>>

\* the locals of process() at entry (orchestrator.py:410-412) and the
\* observations kept of one invocation
FreshRun ==
    [pc |-> "idle",
     earthquakes |-> <<>>, alerted_ids |-> {}, new_earthquakes |-> <<>>,
     decisions |-> <<>>, di |-> 1, ci |-> 1, results |-> <<>>,
     errors |-> <<>>, alerts_sent |-> <<>>, alerts_failed |-> <<>>,
     successfully_alerted |-> <<>>,
     result |-> NoResult,
     response |-> NoResult,
     \* observations
     fetch_raised |-> FALSE, read_raised |-> FALSE,
     store_reads |-> 0, store_writes |-> 0,
     write_failed |-> FALSE, add_arg |-> None, attempts |-> <<>>,
     \* ids whose every delivery attempt failed in the invocation before
     failed_before |-> {}]

ProcessingResult(fetched, new, sent, failed, errs) ==
    [earthquakes_fetched |-> fetched, earthquakes_new |-> new,
     alerts_sent |-> sent, alerts_failed |-> failed, errors |-> errs]

AlertResult(earthquake, channel, success, error) ==
    [earthquake |-> earthquake, channel |-> channel.name,
     success |-> success, error |-> error]

\* the document does not exist before the first run
InitStores == {{}}

Init ==
    /\ store \in InitStores
    /\ config \in Configs
    /\ run = [r \in Runs |-> FreshRun]
    /\ delivered_before = {}
    /\ store_fault = FALSE
    /\ limiter = NoCall
    /\ call = NoCall
    /\ api = NoCall

\* ProcessingResult.success: no run-level error
ProcessingResult_success(result) == Len(result.errors) = 0

\* main.earthquake_monitor after process() returned result: the response
\* body (its status and counts) and the HTTP status code
earthquake_monitor(result) ==
    [status |-> IF ProcessingResult_success(result) THEN "success" ELSE "partial_failure",
     earthquakes_fetched |-> result.earthquakes_fetched,
     earthquakes_new |-> result.earthquakes_new,
     alerts_sent |-> Len(result.alerts_sent),
     alerts_failed |-> Len(result.alerts_failed),
     errors |-> result.errors,
     status_code |-> IF ProcessingResult_success(result) THEN 200 ELSE 207]

\* process() returns res to earthquake_monitor, which answers the request
Return(r, locals, res) ==
    run' = [run EXCEPT ![r] = [locals EXCEPT !.pc = "done", !.result = Some(res),
                                             !.response = Some(earthquake_monitor(res))]]

\* ------------------------------------------------------ shell: the clients
\* What one HTTP call of a client can do: answer 200, answer another status,
\* or raise requests.Timeout / requests.ConnectionError (both subclasses of
\* requests.RequestException).
HttpOutcomes == {"200", "non200", "Timeout", "ConnectionError"}
RequestExceptions == {"Timeout", "ConnectionError"}

\* the text a client reports with a failed call (the response body, str(e))
ErrorText == "client error"

Response(success, error) == [success |-> success, error |-> error]
\* an exception that leaves the callee
Raise(exc) == [exc |-> exc]
IsRaise(x) == "exc" \in DOMAIN x

\* mutant: only requests.Timeout is caught
SlackClient_send_message_timeout_only(http) ==
    IF http = "200" THEN Response(TRUE, None)
    ELSE IF http = "non200" THEN Response(FALSE, Some(ErrorText))
    ELSE IF http = "Timeout" THEN Response(FALSE, Some(ErrorText))
    ELSE Raise(http)

\* SlackClient.send_message: 200 is success, any other status a failure with
\* the response text; Timeout and RequestException are caught
SlackClient_send_message(http) ==
    IF http = "200" THEN Response(TRUE, None)
    ELSE IF http = "non200" THEN Response(FALSE, Some(ErrorText))
    ELSE IF http = "Timeout" THEN Response(FALSE, Some(ErrorText))
    ELSE IF http \in RequestExceptions THEN Response(FALSE, Some(ErrorText))
    ELSE Raise(http)

\* TwitterClient.send_tweet: 200/201 is success; 429, 401, 403 and the rest
\* are failures; Timeout and RequestException are caught
TwitterClient_send_tweet(http) ==
    IF http = "200" THEN Response(TRUE, None)
    ELSE IF http = "non200" THEN Response(FALSE, Some(ErrorText))
    ELSE IF http = "Timeout" THEN Response(FALSE, Some(ErrorText))
    ELSE IF http \in RequestExceptions THEN Response(FALSE, Some(ErrorText))
    ELSE Raise(http)

\* WhatsAppClient.send_message: TwilioRestException and every other
\* Exception are caught
WhatsAppClient_send_message(sent) ==
    IF sent THEN Response(TRUE, None) ELSE Response(FALSE, Some(ErrorText))

\* WhatsAppClient.send_to_group with stop_on_error = False: one response per
\* recipient, in order
WhatsAppClient_send_to_group(to_numbers, sent) ==
    [i \in 1..Len(to_numbers) |-> WhatsAppClient_send_message(sent[i])]

\* the loop of send_to_group: sends[i] is the recipient of the i-th call of
\* send_message, sent[i] whether Twilio accepts the message to to_numbers[i]
RECURSIVE WhatsAppClient_send_to_group_loop(_, _, _, _, _)
WhatsAppClient_send_to_group_loop(to_numbers, sent, stop_on_error, i, acc) ==
    IF i > Len(to_numbers) THEN acc
    ELSE LET response == WhatsAppClient_send_message(sent[i])
             after == [responses |-> Append(acc.responses, response),
                       sends |-> Append(acc.sends, to_numbers[i])]
         IN  IF stop_on_error /\ ~response.success THEN after
             ELSE WhatsAppClient_send_to_group_loop(to_numbers, sent, stop_on_error,
                                                    i + 1, after)

\* WhatsAppClient.send_to_group with its stop_on_error argument, returning
\* the responses together with the calls of send_message it made
WhatsAppClient_send_to_group_traced(to_numbers, sent, stop_on_error) ==
    WhatsAppClient_send_to_group_loop(to_numbers, sent, stop_on_error, 1,
                                      [responses |-> <<>>, sends |-> <<>>])

\* the loop of send_tweets: sends[i] is the text of the i-th call of
\* send_tweet, http[i] the outcome of the request for texts[i].  The sleep
\* between two tweets changes no state.
RECURSIVE TwitterClient_send_tweets_loop(_, _, _, _, _)
TwitterClient_send_tweets_loop(texts, http, stop_on_error, i, acc) ==
    IF i > Len(texts) THEN acc
    ELSE LET response == TwitterClient_send_tweet(http[i])
             after == [responses |-> Append(acc.responses, response),
                       sends |-> Append(acc.sends, texts[i])]
         IN  IF stop_on_error /\ ~response.success THEN after
             ELSE TwitterClient_send_tweets_loop(texts, http, stop_on_error, i + 1, after)

\* mutant: the batch goes on after a failed tweet whatever stop_on_error is
TwitterClient_send_tweets_never_stop(texts, http, stop_on_error) ==
    TwitterClient_send_tweets_loop(texts, http, FALSE, 1,
                                   [responses |-> <<>>, sends |-> <<>>])

\* TwitterClient.send_tweets, returning the responses together with the calls
\* of send_tweet it made
TwitterClient_send_tweets(texts, http, stop_on_error) ==
    TwitterClient_send_tweets_loop(texts, http, stop_on_error, 1,
                                   [responses |-> <<>>, sends |-> <<>>])

\* mutant: a read that raises is answered as if it had returned the ids
get_alerted_ids_reliable(read_ok) == store

\* FirestoreClient.get_alerted_ids: the ids of the document, the empty set
\* when the read raises (the exception is caught)
get_alerted_ids(read_ok) == IF read_ok THEN store ELSE {}

\* ------------------------------------------------ Orchestrator._send_alert
\* One call on a client made during a send.  The *_traced operators follow
\* the code of a _send_*_alert method and give both what it returns
\* ("result") and the calls it made on the clients, in order ("calls").
ClientCall(client, method, media_ids) ==
    [client |-> client, method |-> method, media_ids |-> media_ids]

Traced(result, calls) == [result |-> result, calls |-> calls]

_send_slack_alert_traced(earthquake, channel, io) ==
    LET response == SlackClient_send_message(io.http)
        calls == <<ClientCall("slack_client", "send_message", None)>>
    IN  IF IsRaise(response) THEN Traced(response, calls)
        ELSE Traced(AlertResult(earthquake, channel, response.success, response.error),
                    calls)

\* mutant: a failed map or upload fails the alert and no tweet is sent
_send_twitter_alert_needs_map(earthquake, channel, io) ==
    IF NoCredentials(channel)
    THEN Traced(AlertResult(earthquake, channel, FALSE,
                            Some("Twitter channel missing credentials")), <<>>)
    ELSE IF ~(TwitterKeys \subseteq Val(channel.credentials).keys)
    THEN Traced(AlertResult(earthquake, channel, FALSE,
                            Some("Twitter credentials missing key")), <<>>)
    ELSE LET map_call == <<ClientCall("static_map_client", "generate_map", None)>>
             upload_call == IF io.map_ok
                            THEN <<ClientCall("twitter_client", "upload_media", None)>>
                            ELSE <<>>
             response == TwitterClient_send_tweet(io.http)
         IN  IF ~(io.map_ok /\ io.upload_ok)
             THEN Traced(AlertResult(earthquake, channel, FALSE, Some(ErrorText)),
                         map_call \o upload_call)
             ELSE Traced(AlertResult(earthquake, channel, response.success, response.error),
                         map_call \o upload_call
                           \o <<ClientCall("twitter_client", "send_tweet", Some("media_id"))>>)

_send_twitter_alert_traced(earthquake, channel, io) ==
    IF NoCredentials(channel)
    THEN Traced(AlertResult(earthquake, channel, FALSE,
                            Some("Twitter channel missing credentials")), <<>>)
    ELSE IF ~(TwitterKeys \subseteq Val(channel.credentials).keys)
    THEN Traced(AlertResult(earthquake, channel, FALSE,
                            Some("Twitter credentials missing key")), <<>>)
    ELSE LET map_call == <<ClientCall("static_map_client", "generate_map", None)>>
             \* the image is uploaded only when the map was generated
             upload_call == IF io.map_ok
                            THEN <<ClientCall("twitter_client", "upload_media", None)>>
                            ELSE <<>>
             media_ids == IF io.map_ok /\ io.upload_ok THEN Some("media_id") ELSE None
             response  == TwitterClient_send_tweet(io.http)
             calls == map_call \o upload_call
                        \o <<ClientCall("twitter_client", "send_tweet", media_ids)>>
         IN  IF IsRaise(response) THEN Traced(response, calls)
             ELSE Traced(AlertResult(earthquake, channel, response.success, response.error),
                         calls)

\* mutant: the recipients are not checked before the group send
_send_whatsapp_alert_unchecked(earthquake, channel, io) ==
    IF IsNone(channel.credentials)
    THEN Traced(AlertResult(earthquake, channel, FALSE,
                            Some("WhatsApp channel missing credentials")), <<>>)
    ELSE LET to_numbers  == Val(channel.credentials).to_numbers
             responses   == WhatsAppClient_send_to_group(to_numbers, io.sent)
             any_success == \E i \in 1..Len(responses) : responses[i].success
             all_success == \A i \in 1..Len(responses) : responses[i].success
         IN  Traced(AlertResult(earthquake, channel, any_success,
                                IF all_success THEN None ELSE Some(ErrorText)),
                    <<ClientCall("whatsapp_client", "send_to_group", None)>>)

_send_whatsapp_alert_traced(earthquake, channel, io) ==
    IF NoCredentials(channel)
    THEN Traced(AlertResult(earthquake, channel, FALSE,
                            Some("WhatsApp channel missing credentials")), <<>>)
    ELSE IF ~(WhatsAppKeys \subseteq Val(channel.credentials).keys)
    THEN Traced(AlertResult(earthquake, channel, FALSE,
                            Some("WhatsApp credentials missing key")), <<>>)
    ELSE IF Val(channel.credentials).to_numbers = <<>>
    THEN Traced(AlertResult(earthquake, channel, FALSE,
                            Some("WhatsApp channel has no recipients (to_numbers)")), <<>>)
    ELSE LET to_numbers  == Val(channel.credentials).to_numbers
             responses   == WhatsAppClient_send_to_group(to_numbers, io.sent)
             any_success == \E i \in 1..Len(responses) : responses[i].success
             all_success == \A i \in 1..Len(responses) : responses[i].success
         IN  Traced(AlertResult(earthquake, channel, any_success,
                                IF all_success THEN None ELSE Some(ErrorText)),
                    <<ClientCall("whatsapp_client", "send_to_group", None)>>)

\* what each method returns
_send_slack_alert(earthquake, channel, io) ==
    _send_slack_alert_traced(earthquake, channel, io).result

_send_twitter_alert(earthquake, channel, io) ==
    _send_twitter_alert_traced(earthquake, channel, io).result

_send_whatsapp_alert(earthquake, channel, io) ==
    _send_whatsapp_alert_traced(earthquake, channel, io).result

\* what the clients can do during one _send_alert
SendIO(channel) ==
    IF channel.channel_type = "twitter"
    THEN [kind : {"twitter"}, map_ok : BOOLEAN, upload_ok : BOOLEAN, http : HttpOutcomes]
    ELSE IF channel.channel_type = "whatsapp"
    THEN [kind : {"whatsapp"},
          sent : [1..(IF IsNone(channel.credentials) THEN 0
                      ELSE Len(Val(channel.credentials).to_numbers)) -> BOOLEAN]]
    ELSE [kind : {"slack"}, http : HttpOutcomes]

\* the dispatch of _send_alert on the channel type, with the client calls
_send_alert_traced(earthquake, channel, io) ==
    IF channel.channel_type = "twitter"
    THEN _send_twitter_alert_traced(earthquake, channel, io)
    ELSE IF channel.channel_type = "whatsapp"
    THEN _send_whatsapp_alert_traced(earthquake, channel, io)
    ELSE _send_slack_alert_traced(earthquake, channel, io)

_send_alert(earthquake, channel, io) ==
    IF channel.channel_type = "twitter" THEN _send_twitter_alert(earthquake, channel, io)
    ELSE IF channel.channel_type = "whatsapp" THEN _send_whatsapp_alert(earthquake, channel, io)
    ELSE _send_slack_alert(earthquake, channel, io)

\* ------------------------------------------------- Orchestrator.process
\* mutant: a failed fetch is treated as an empty feed and the run goes on
ProcessFetchError_as_empty(r) ==
    /\ run' = [run EXCEPT ![r].pc = "fetched", ![r].fetch_raised = TRUE,
                          ![r].errors = <<"Failed to fetch earthquakes">>]
    /\ UNCHANGED <<store, config, delivered_before, store_fault>>

\* Step 1, the except branch: the fetch (or the parse) raised
ProcessFetchError(r) ==
    /\ Return(r, [run[r] EXCEPT !.fetch_raised = TRUE],
              ProcessingResult(0, 0, <<>>, <<>>, <<"Failed to fetch earthquakes">>))
    /\ UNCHANGED <<store, config, delivered_before, store_fault>>

\* Step 1, the fetch returned: "if not earthquakes" returns at once
ProcessFetched(r, earthquakes) ==
    /\ IF earthquakes = <<>>
       THEN Return(r, run[r], ProcessingResult(0, 0, <<>>, <<>>, <<>>))
       ELSE run' = [run EXCEPT ![r].pc = "fetched", ![r].earthquakes = earthquakes]
    /\ UNCHANGED <<store, config, delivered_before, store_fault>>

Fetch(r, n) ==
    /\ run[r].pc = "idle"
    /\ \/ ProcessFetchError(r)
       \/ \E feed \in Feeds(n) : ProcessFetched(r, parse_earthquakes(feed))

\* Steps 2 and 3: read the seen ids, filter, evaluate the rules
ReadStore(r) ==
    /\ run[r].pc = "fetched"
    /\ \E read_ok \in BOOLEAN :
          LET alerted_ids     == get_alerted_ids(read_ok)
              new_earthquakes == filter_already_alerted(run[r].earthquakes, alerted_ids)
              decisions       == make_alert_decisions(new_earthquakes, config.alert_channels)
              locals == [run[r] EXCEPT !.alerted_ids = alerted_ids,
                                       !.new_earthquakes = new_earthquakes,
                                       !.decisions = decisions,
                                       !.read_raised = ~read_ok,
                                       !.store_reads = @ + 1]
          IN  /\ store_fault' = (store_fault \/ ~read_ok)
              /\ IF new_earthquakes = <<>>
                 THEN Return(r, locals,
                             ProcessingResult(Len(run[r].earthquakes), 0, <<>>, <<>>, <<>>))
                 ELSE IF decisions = <<>>
                 THEN Return(r, locals,
                             ProcessingResult(Len(run[r].earthquakes), Len(new_earthquakes),
                                              <<>>, <<>>, <<>>))
                 ELSE run' = [run EXCEPT ![r] = [locals EXCEPT !.pc = "sending"]]
    /\ UNCHANGED <<store, config, delivered_before>>

\* mutant: an event counts as alerted whatever the outcome of the delivery
RECURSIVE FileResults_any_attempt(_, _)
FileResults_any_attempt(results, locals) ==
    IF results = <<>> THEN locals
    ELSE LET result == Head(results)
             alerted == [locals EXCEPT
                           !.successfully_alerted =
                               IF \E i \in 1..Len(@) : @[i] = result.earthquake
                               THEN @ ELSE Append(@, result.earthquake)]
             next == IF result.success
                     THEN [alerted EXCEPT !.alerts_sent = Append(@, result)]
                     ELSE [alerted EXCEPT !.alerts_failed = Append(@, result)]
         IN  FileResults_any_attempt(Tail(results), next)

\* lines 475-481: file the results of one decision
RECURSIVE FileResults(_, _)
FileResults(results, locals) ==
    IF results = <<>> THEN locals
    ELSE LET result == Head(results)
             next ==
                 IF result.success
                 THEN [locals EXCEPT
                         !.alerts_sent = Append(@, result),
                         !.successfully_alerted =
                             IF \E i \in 1..Len(@) : @[i] = result.earthquake
                             THEN @ ELSE Append(@, result.earthquake)]
                 ELSE [locals EXCEPT !.alerts_failed = Append(@, result)]
         IN  FileResults(Tail(results), next)

\* mutant: a send waits until the event's id is absent from the store
Sending_if_unseen(r) ==
    /\ run[r].pc = "sending"
    /\ run[r].decisions[run[r].di].earthquake.id \notin store

\* the for-loop of _process_decision is in progress
Sending(r) == run[r].pc = "sending"

\* mutant: the loop over the channels stops at the first failed delivery
HasNextChannel_until_failure(r, result) ==
    result.success /\ run[r].ci < Len(run[r].decisions[run[r].di].channels)

\* the for-loop of _process_decision after the send to channel ci returned
\* result: it goes on to the next channel whatever the result
HasNextChannel(r, result) ==
    run[r].ci < Len(run[r].decisions[run[r].di].channels)

\* Step 4: one _send_alert of _process_decision; after the last channel of a
\* decision its results are filed, and after the last decision process() goes
\* on to step 5 or returns
SendAlert(r) ==
    /\ Sending(r)
    /\ LET decision == run[r].decisions[run[r].di]
           channel  == decision.channels[run[r].ci]
       IN  \E result \in {_send_alert(decision.earthquake, channel, io) : io \in SendIO(channel)} :
                  IF IsRaise(result)
                  THEN run' = [run EXCEPT ![r].pc = "raised"]
                  ELSE LET sent == [run[r] EXCEPT !.results = Append(@, result),
                                                  !.attempts = Append(@, result)]
                       IN  IF HasNextChannel(r, result)
                           THEN run' = [run EXCEPT ![r] = [sent EXCEPT !.ci = @ + 1]]
                           ELSE LET filed == [FileResults(sent.results, sent) EXCEPT
                                                !.results = <<>>, !.ci = 1, !.di = @ + 1]
                                IN  IF run[r].di < Len(run[r].decisions)
                                    THEN run' = [run EXCEPT ![r] = filed]
                                    ELSE IF filed.successfully_alerted # <<>>
                                    THEN run' = [run EXCEPT ![r] = [filed EXCEPT !.pc = "storing"]]
                                    ELSE Return(r, filed,
                                                ProcessingResult(Len(filed.earthquakes),
                                                                 Len(filed.new_earthquakes),
                                                                 filed.alerts_sent,
                                                                 filed.alerts_failed,
                                                                 filed.errors))
    /\ UNCHANGED <<store, config, delivered_before, store_fault>>

\* mutant: the write reports success without adding the ids
add_alerted_ids_dropped(new_ids, write_ok) == store

\* mutant: the write replaces the document's ids (as save_alerted_ids does)
add_alerted_ids_replace(new_ids, write_ok) ==
    IF new_ids = {} THEN store
    ELSE IF write_ok THEN new_ids
    ELSE store

\* FirestoreClient.add_alerted_ids: the document's ids after the call (an
\* ArrayUnion; nothing is written for an empty set or when the write raises)
add_alerted_ids(new_ids, write_ok) ==
    IF new_ids = {} THEN store
    ELSE IF write_ok THEN store \cup new_ids
    ELSE store

\* mutant: a failed write takes the sent alerts back
RecordWrite_undo(locals, returned) ==
    IF returned THEN locals
    ELSE [locals EXCEPT !.errors = Append(@, "Failed to update deduplication state"),
                        !.alerts_failed = @ \o locals.alerts_sent,
                        !.alerts_sent = <<>>]

\* lines 486-487: a False from add_alerted_ids is recorded as a run error
RecordWrite(locals, returned) ==
    [locals EXCEPT !.errors = IF returned THEN @
                              ELSE Append(@, "Failed to update deduplication state")]

\* Step 5: the store write and the return of process()
AddAlertedIds(r) ==
    /\ run[r].pc = "storing"
    /\ LET new_ids == compute_ids_to_store(run[r].successfully_alerted)
       IN  \E write_ok \in BOOLEAN :
              LET returned == (new_ids = {}) \/ write_ok
                  locals == RecordWrite([run[r] EXCEPT !.store_writes = @ + 1,
                                                       !.add_arg = Some(new_ids),
                                                       !.write_failed = ~returned],
                                        returned)
              IN  /\ store' = add_alerted_ids(new_ids, write_ok)
                  /\ store_fault' = (store_fault \/ ~returned)
                  /\ Return(r, locals,
                            ProcessingResult(Len(locals.earthquakes),
                                             Len(locals.new_earthquakes),
                                             locals.alerts_sent, locals.alerts_failed,
                                             locals.errors))
    /\ UNCHANGED <<config, delivered_before>>

DeliveredPairs(alerts) ==
    {<<alerts[i].earthquake.id, alerts[i].channel>> : i \in 1..Len(alerts)}

\* the ids for which an invocation made delivery attempts that all failed
AllFailed(locals) ==
    {id \in Ids :
        /\ \E i \in 1..Len(locals.attempts) : locals.attempts[i].earthquake.id = id
        /\ \A i \in 1..Len(locals.attempts) :
              locals.attempts[i].earthquake.id = id => ~locals.attempts[i].success}

\* the scheduler invokes process() again on the same store
Rerun(r) ==
    /\ run[r].pc = "done"
    /\ run' = [run EXCEPT ![r] = [FreshRun EXCEPT !.failed_before = AllFailed(run[r])]]
    /\ delivered_before' = delivered_before \cup DeliveredPairs(run[r].alerts_sent)
    /\ UNCHANGED <<store, config, store_fault>>

\* one orchestrator, one run at a time; process() holds no rate-limit state
Next ==
    /\ \/ Fetch(1, MaxFeed)
       \/ ReadStore(1)
       \/ SendAlert(1)
       \/ AddAlertedIds(1)
       \/ Rerun(1)
    /\ UNCHANGED <<limiter, call, api>>

Spec == Init /\ [][Next]_vars

\* two invocations of process() that may overlap, each running once
NextOverlap ==
    /\ \E r \in Runs :
          \/ Fetch(r, MaxFeedOverlap)
          \/ ReadStore(r)
          \/ SendAlert(r)
          \/ AddAlertedIds(r)
    /\ UNCHANGED <<limiter, call, api>>

SpecOverlap == Init /\ [][NextOverlap]_vars

\* ------------------------------------------- the rate limiter on its own
\* the orchestrator's variables, at rest while a core function is exercised
process_vars == <<store, config, run, delivered_before, store_fault>>

ProcessAtRest ==
    /\ store = {}
    /\ config = [alert_channels |-> <<>>, rate_limit |-> RateLimit(<<>>)]
    /\ run = [r \in Runs |-> FreshRun]
    /\ delivered_before = {}
    /\ store_fault = FALSE

\* channel names the limiter is asked about
RateChannels == {"slack", "twitter"}

\* dicts from some of the channel names to counts up to n
Dicts(n) == UNION {[names -> 0..n] : names \in SUBSET RateChannels}

\* RateLimitConfig values: each limit 0 (unlimited) up to MaxLimit
RateLimitConfigs ==
    [max_alerts_per_run : 0..MaxLimit, max_alerts_per_channel : 0..MaxLimit]

InitRateLimit ==
    /\ ProcessAtRest
    /\ call = NoCall
    /\ api = NoCall
    /\ \E total_alerts \in 0..MaxLimit, alerts_per_channel \in Dicts(MaxLimit),
          rate_limit \in RateLimitConfigs :
          limiter = [state  |-> RateLimitState(total_alerts, alerts_per_channel),
                     config |-> rate_limit,
                     last   |-> NoCall]

\* a caller asks whether an alert to channel_name is allowed
CheckRateLimit(channel_name) ==
    /\ limiter' = [limiter EXCEPT !.last =
                      [op |-> "check_rate_limit", channel_name |-> channel_name,
                       state |-> limiter.state,
                       result |-> check_rate_limit(channel_name, limiter.state,
                                                   limiter.config)]]
    /\ UNCHANGED <<process_vars, call, api>>

\* a caller records an alert to channel_name and keeps the returned state
RecordAlert(channel_name) ==
    /\ limiter.state.total_alerts < MaxAlerts
    /\ LET out == record_alert(channel_name, limiter.state)
       IN  limiter' = [limiter EXCEPT
                         !.state = out.returned,
                         !.last = [op |-> "record_alert", channel_name |-> channel_name,
                                   before |-> limiter.state,
                                   state |-> out.state,
                                   returned |-> out.returned]]
    /\ UNCHANGED <<process_vars, call, api>>

NextRateLimit ==
    \E channel_name \in RateChannels :
        \/ CheckRateLimit(channel_name)
        \/ RecordAlert(channel_name)

SpecRateLimit == InitRateLimit /\ [][NextRateLimit]_vars

\* ------------------------------------------------ the API's locale cache
\* values of time.time() at which the service is called
Times == {1000, 1100, 1500}

\* the documents the locales collection can hold
LocaleDocs == [name : LocaleNames, is_active : BOOLEAN]

AdminOps == {"admin_create_locale", "admin_update_locale",
             "admin_delete_locale", "admin_restore_locale"}

\* the service at start: empty cache, timestamp 0; the collection holds
\* any documents
InitLocales ==
    /\ ProcessAtRest
    /\ limiter = NoCall
    /\ call = NoCall
    /\ \E slugs \in SUBSET Slugs :
       \E locales \in [slugs -> [name : {"name1"}, is_active : BOOLEAN]] :
          api = [locales |-> locales, _locale_cache |-> <<>>, _cache_timestamp |-> 0,
                 now |-> 1000, mutated |-> FALSE, last |-> NoCall]

\* the response of an admin endpoint; a successful mutation has written the
\* collection and invalidated the cache
AdminDone(op, slug, status, locales) ==
    api' = IF status = 200
           THEN [_invalidate_cache(api) EXCEPT
                    !.locales = locales, !.mutated = TRUE,
                    !.last = [op |-> op, slug |-> slug, status |-> status]]
           ELSE [api EXCEPT !.last = [op |-> op, slug |-> slug, status |-> status]]

AdminCreateLocale(slug) ==
    /\ \E reachable \in BOOLEAN, doc \in LocaleDocs :
          IF ~reachable THEN AdminDone("admin_create_locale", slug, 500, api.locales)
          ELSE IF slug \in DOMAIN api.locales
          THEN AdminDone("admin_create_locale", slug, 409, api.locales)
          ELSE AdminDone("admin_create_locale", slug, 200,
                         [d \in DOMAIN api.locales \cup {slug} |->
                             IF d = slug THEN doc ELSE api.locales[d]])
    /\ UNCHANGED <<process_vars, limiter, call>>

AdminUpdateLocale(slug) ==
    /\ \E reachable \in BOOLEAN, name \in {None} \cup {Some(n) : n \in LocaleNames},
          is_active \in {None, Some(TRUE), Some(FALSE)} :
          IF ~reachable THEN AdminDone("admin_update_locale", slug, 500, api.locales)
          ELSE IF slug \notin DOMAIN api.locales
          THEN AdminDone("admin_update_locale", slug, 404, api.locales)
          ELSE AdminDone("admin_update_locale", slug, 200,
                         [api.locales EXCEPT
                            ![slug].name = IF IsNone(name) THEN @ ELSE Val(name),
                            ![slug].is_active = IF IsNone(is_active) THEN @
                                                ELSE Val(is_active)])
    /\ UNCHANGED <<process_vars, limiter, call>>

AdminDeleteLocale(slug) ==
    /\ \E reachable \in BOOLEAN, hard \in BOOLEAN :
          IF ~reachable THEN AdminDone("admin_delete_locale", slug, 500, api.locales)
          ELSE IF slug \notin DOMAIN api.locales
          THEN AdminDone("admin_delete_locale", slug, 404, api.locales)
          ELSE IF hard
          THEN AdminDone("admin_delete_locale", slug, 200,
                         [d \in DOMAIN api.locales \ {slug} |-> api.locales[d]])
          ELSE AdminDone("admin_delete_locale", slug, 200,
                         [api.locales EXCEPT ![slug].is_active = FALSE])
    /\ UNCHANGED <<process_vars, limiter, call>>

AdminRestoreLocale(slug) ==
    /\ \E reachable \in BOOLEAN :
          IF ~reachable THEN AdminDone("admin_restore_locale", slug, 500, api.locales)
          ELSE IF slug \notin DOMAIN api.locales
          THEN AdminDone("admin_restore_locale", slug, 404, api.locales)
          ELSE AdminDone("admin_restore_locale", slug, 200,
                         [api.locales EXCEPT ![slug].is_active = TRUE])
    /\ UNCHANGED <<process_vars, limiter, call>>

\* a public endpoint asks for the locales
GetLocales ==
    /\ \E reachable \in BOOLEAN :
          LET out == _get_locales(api, reachable)
          IN  api' = [out.api EXCEPT
                        !.mutated = FALSE,
                        !.last = [op |-> "_get_locales", reachable |-> reachable,
                                  after_mutation |-> api.mutated,
                                  refreshed |-> ~_is_cache_valid(api),
                                  returned |-> out.returned]]
    /\ UNCHANGED <<process_vars, limiter, call>>

\* time passes between two requests
Tick ==
    /\ \E t \in Times : t > api.now /\ api' = [api EXCEPT !.now = t]
    /\ UNCHANGED <<process_vars, limiter, call>>

NextLocales ==
    \/ \E slug \in Slugs :
          \/ AdminCreateLocale(slug)
          \/ AdminUpdateLocale(slug)
          \/ AdminDeleteLocale(slug)
          \/ AdminRestoreLocale(slug)
    \/ GetLocales
    \/ Tick

SpecLocales == InitLocales /\ [][NextLocales]_vars

\* a monitoring cycle from its start: RateLimitState() has total 0 and an
\* empty dict
InitRateLimitFresh ==
    /\ ProcessAtRest
    /\ call = NoCall
    /\ api = NoCall
    /\ \E rate_limit \in RateLimitConfigs :
          limiter = [state  |-> RateLimitState(0, <<>>),
                     config |-> rate_limit,
                     last   |-> NoCall]

SpecRateLimitFresh == InitRateLimitFresh /\ [][NextRateLimit]_vars

\* ------------------------------------------ the core functions on their own
\* the events the feed records parse to
ParsedEvents ==
    {Val(parse_earthquake(Feature(name))) :
        name \in {n \in FeatureNames : ~IsNone(parse_earthquake(Feature(n)))}}

\* events at the places of the feed records, of a magnitude below and above
\* the rules' minimum, with and without felt reports and tsunami flag
Earthquakes ==
    {[e EXCEPT !.magnitude = magnitude, !.felt = felt, !.tsunami = tsunami] :
        e \in ParsedEvents, magnitude \in {20, 40},
        felt \in {None, Some(5), Some(10)}, tsunami \in BOOLEAN}

\* AlertRule values
AlertRules ==
    [min_magnitude : {30}, max_magnitude : {None, Some(35)},
     bounds : {None, Some(BayArea)}, points_of_interest : {<<>>, <<Office>>},
     alert_on_tsunami : BOOLEAN, alert_on_felt : BOOLEAN, felt_threshold : {0, 10}]

InitCore ==
    /\ ProcessAtRest
    /\ limiter = NoCall
    /\ call = NoCall
    /\ api = NoCall

EvaluateRule ==
    /\ call = NoCall
    /\ \E earthquake \in Earthquakes, rule \in AlertRules :
          call' = [op |-> "evaluate_rule", earthquake |-> earthquake, rule |-> rule,
                   result |-> evaluate_rule(earthquake, rule)]
    /\ UNCHANGED <<process_vars, limiter, api>>

\* event lists as a fetch can hand them on
EventLists == SeqsUpTo(ParsedEvents, MaxEvents)

MakeAlertDecisions ==
    /\ call = NoCall
    /\ \E earthquakes \in EventLists, channels \in ChannelLists \cup {<<>>} :
          call' = [op |-> "make_alert_decisions", earthquakes |-> earthquakes,
                   channels |-> channels,
                   result |-> make_alert_decisions(earthquakes, channels)]
    /\ UNCHANGED <<process_vars, limiter, api>>

FilterAlreadyAlerted ==
    /\ call = NoCall
    /\ \E earthquakes \in EventLists, already_alerted_ids \in SUBSET Ids :
          call' = [op |-> "filter_already_alerted", earthquakes |-> earthquakes,
                   already_alerted_ids |-> already_alerted_ids,
                   result |-> filter_already_alerted(earthquakes, already_alerted_ids)]
    /\ UNCHANGED <<process_vars, limiter, api>>

ComputeIdsToExpire ==
    /\ call = NoCall
    /\ \E stored_ids \in SUBSET Ids, current_earthquake_ids \in SUBSET Ids,
          max_stored \in 0..MaxStored :
          \E result \in compute_ids_to_expire(stored_ids, current_earthquake_ids,
                                              max_stored) :
              call' = [op |-> "compute_ids_to_expire", stored_ids |-> stored_ids,
                       current_earthquake_ids |-> current_earthquake_ids,
                       max_stored |-> max_stored, result |-> result]
    /\ UNCHANGED <<process_vars, limiter, api>>

\* twitter channels: complete credentials, a key missing, an empty bundle,
\* no bundle
TwitterChannels ==
    {TwitterChannel(credentials) :
        credentials \in {Credentials(TwitterKeys, <<>>),
                         Credentials(TwitterKeys \ {"access_token"}, <<>>),
                         Credentials({}, <<>>), None}}

\* one _send_twitter_alert, with whatever the map client, the upload and
\* the tweet post do
SendTwitterAlert ==
    /\ call = NoCall
    /\ \E earthquake \in ParsedEvents, channel \in TwitterChannels :
          \E io \in SendIO(channel) :
              LET sent == _send_twitter_alert_traced(earthquake, channel, io)
              IN  call' = [op |-> "_send_twitter_alert", earthquake |-> earthquake,
                           channel |-> channel, io |-> io,
                           result |-> sent.result, calls |-> sent.calls]
    /\ UNCHANGED <<process_vars, limiter, api>>

\* events as the tweet formatter reads them; place and url are lengths
TweetEvents ==
    [magnitude : {42, 55, 65}, place : 0..MaxPlace, depth_km : {10},
     url : {0, 54, 250}] \X
    {[tsunami |-> FALSE, alert |-> None, felt |-> None],
     [tsunami |-> TRUE, alert |-> Some("green"), felt |-> Some(150)],
     [tsunami |-> TRUE, alert |-> Some("orange"), felt |-> Some(1500)]}

\* nearby-POI lists: none, or one POI 12 km away whose name has a length
\* that leaves the headline 21, 20 or no characters
NearbyPois == {<<>>} \cup {<<<<[name |-> name], 12>>>> : name \in {12, 231, 232, 300}}

FormatTwitterMessage ==
    /\ call = NoCall
    /\ \E e \in TweetEvents, nearby_pois \in NearbyPois :
          LET earthquake == [magnitude |-> e[1].magnitude, place |-> e[1].place,
                             depth_km |-> e[1].depth_km, url |-> e[1].url,
                             tsunami |-> e[2].tsunami, alert |-> e[2].alert,
                             felt |-> e[2].felt]
          IN  call' = [op |-> "format_twitter_message", earthquake |-> earthquake,
                       nearby_pois |-> nearby_pois,
                       result |-> format_twitter_message(earthquake, nearby_pois)]
    /\ UNCHANGED <<process_vars, limiter, api>>

ToNumbers == {"whatsapp:+1", "whatsapp:+2", "whatsapp:+3"}
TweetTexts == {"tweet1", "tweet2"}

SendToGroup ==
    /\ call = NoCall
    /\ \E n \in 0..MaxBatch, stop_on_error \in BOOLEAN :
       \E to_numbers \in [1..n -> ToNumbers], sent \in [1..n -> BOOLEAN] :
          LET out == WhatsAppClient_send_to_group_traced(to_numbers, sent, stop_on_error)
          IN  call' = [op |-> "send_to_group", inputs |-> to_numbers,
                       outcomes |-> sent, stop_on_error |-> stop_on_error,
                       responses |-> out.responses, sends |-> out.sends]
    /\ UNCHANGED <<process_vars, limiter, api>>

SendTweets ==
    /\ call = NoCall
    /\ \E n \in 0..MaxBatch, stop_on_error \in BOOLEAN :
       \E texts \in [1..n -> TweetTexts], http \in [1..n -> HttpOutcomes] :
          LET out == TwitterClient_send_tweets(texts, http, stop_on_error)
          IN  call' = [op |-> "send_tweets", inputs |-> texts,
                       outcomes |-> http, stop_on_error |-> stop_on_error,
                       responses |-> out.responses, sends |-> out.sends]
    /\ UNCHANGED <<process_vars, limiter, api>>

NextCore ==
    \/ EvaluateRule
    \/ MakeAlertDecisions
    \/ FilterAlreadyAlerted
    \/ ComputeIdsToExpire
    \/ SendTwitterAlert
    \/ FormatTwitterMessage
    \/ SendToGroup
    \/ SendTweets

SpecCore == InitCore /\ [][NextCore]_vars

\* ======================================================== the claims
Succeeded(attempts) == SelectSeq(attempts, LAMBDA a : a.success)
Failed(attempts) == SelectSeq(attempts, LAMBDA a : ~a.success)
Pair(a) == <<a.earthquake.id, a.channel>>
\* how many entries of alerts are for pair
Count(alerts, pair) == Cardinality({i \in 1..Len(alerts) : Pair(alerts[i]) = pair})
AllPairs == Ids \X ChannelNames
IdsOf(earthquakes) == {earthquakes[i].id : i \in 1..Len(earthquakes)}
Done(r) == run[r].pc = "done"

C2_PartialFailureNotPersisted ==
    ( /\ Done(1)
      /\ Len(run[1].decisions) = 1
      /\ Len(run[1].decisions[1].channels) = 2
      /\ Len(Succeeded(run[1].attempts)) = 1
      /\ Len(Failed(run[1].attempts)) = 1 )
    => /\ Len(Val(run[1].result).alerts_sent) = 1
       /\ Len(Val(run[1].result).alerts_failed) = 1
       /\ IsNone(run[1].add_arg)
       /\ run[1].decisions[1].earthquake.id \notin store

\* C3 (as stated): with max_alerts_per_run = N > 0 a run makes at most N
\* successful deliveries, and with max_alerts_per_channel = M > 0 at most M
\* to any one channel.
C3_RateLimited ==
    LET sent == Succeeded(run[1].attempts)
        N == config.rate_limit.max_alerts_per_run
        M == config.rate_limit.max_alerts_per_channel
    IN  /\ N > 0 => Len(sent) <= N
        /\ M > 0 => \A c \in ChannelNames :
                       Cardinality({i \in 1..Len(sent) : sent[i].channel = c}) <= M

\* C4: no delivery is attempted for an event whose id is in the set that
\* get_alerted_ids returned; when every fetched event is in that set the run
\* returns fetched = number of parsed events, new = 0, no alerts, no errors,
\* and does not write to the store.
C4_SeenNotDelivered ==
    /\ \A i \in 1..Len(run[1].attempts) :
          run[1].attempts[i].earthquake.id \notin run[1].alerted_ids
    /\ ( /\ Done(1) /\ run[1].store_reads = 1
         /\ IdsOf(run[1].earthquakes) \subseteq run[1].alerted_ids )
       => /\ run[1].result =
                Some(ProcessingResult(Len(run[1].earthquakes), 0, <<>>, <<>>, <<>>))
          /\ run[1].store_writes = 0
          /\ run[1].attempts = <<>>

\* two fetched events, both already in the set the store returned
C4_Witness ==
    /\ Done(1) /\ run[1].store_reads = 1
    /\ Len(run[1].earthquakes) = 2
    /\ Cardinality(IdsOf(run[1].earthquakes)) = 2
    /\ IdsOf(run[1].earthquakes) \subseteq run[1].alerted_ids

RECURSIVE Flatten(_)
Flatten(decisions) ==
    IF decisions = <<>> THEN <<>>
    ELSE [i \in 1..Len(Head(decisions).channels) |->
             <<Head(decisions).earthquake, Head(decisions).channels[i].name>>]
         \o Flatten(Tail(decisions))

Attempted(attempts) == [i \in 1..Len(attempts) |-> <<attempts[i].earthquake, attempts[i].channel>>]

\* C6: a failed delivery does not stop the run: when the run is over, every
\* (event, matching channel) pair of the decisions has had exactly one
\* attempt, and every attempt is in exactly one of alerts_sent and
\* alerts_failed.
C6_EveryPairAttemptedOnce ==
    /\ Len(run[1].attempts) <= Len(Flatten(run[1].decisions))
    /\ Attempted(run[1].attempts)
          = SubSeq(Flatten(run[1].decisions), 1, Len(run[1].attempts))
    /\ (Done(1) /\ ~run[1].fetch_raised) =>
          /\ Attempted(run[1].attempts) = Flatten(run[1].decisions)
          /\ Val(run[1].result).alerts_sent = Succeeded(run[1].attempts)
          /\ Val(run[1].result).alerts_failed = Failed(run[1].attempts)

\* the first attempt of the run failed and three more attempts followed
C6_Witness ==
    /\ Done(1)
    /\ Len(run[1].attempts) = 4
    /\ ~run[1].attempts[1].success
    /\ run[1].attempts[2].earthquake = run[1].attempts[1].earthquake
    /\ run[1].attempts[4].success

\* C7: when the fetch raises, process() returns zero counts, no alerts and
\* exactly one error, without reading or writing the store and without any
\* delivery attempt.
C7_FetchFailureAborts ==
    run[1].fetch_raised =>
        /\ Done(1)
        /\ Val(run[1].result).earthquakes_fetched = 0
        /\ Val(run[1].result).earthquakes_new = 0
        /\ Val(run[1].result).alerts_sent = <<>>
        /\ Val(run[1].result).alerts_failed = <<>>
        /\ Len(Val(run[1].result).errors) = 1
        /\ run[1].store_reads = 0
        /\ run[1].store_writes = 0
        /\ run[1].attempts = <<>>

\* the fetch of a later run raised, with ids in the store
C7_Witness == run[1].fetch_raised /\ Done(1) /\ store # {}

\* C8: when add_alerted_ids returns false the run records exactly one error,
\* does not repeat the write, and reports the alerts as they were sent.
C8_WriteFailureKeepsAlerts ==
    (Done(1) /\ run[1].write_failed) =>
        /\ Len(Val(run[1].result).errors) = 1
        /\ run[1].store_writes = 1
        /\ Val(run[1].result).alerts_sent = Succeeded(run[1].attempts)
        /\ Val(run[1].result).alerts_failed = Failed(run[1].attempts)
        /\ Val(run[1].result).alerts_sent # <<>>

\* the write failed after a run with a sent and a failed alert
C8_Witness ==
    /\ Done(1) /\ run[1].write_failed
    /\ Val(run[1].result).alerts_sent # <<>>
    /\ Val(run[1].result).alerts_failed # <<>>

C11_StoreReadOnceWrittenOnce ==
    [][ /\ store \subseteq store'
        /\ run'[1].store_reads <= 1
        /\ run'[1].store_writes <= 1
        \* a step that reads the store: no attempt has been made
        /\ run'[1].store_reads > run[1].store_reads => run[1].attempts = <<>>
        \* a step that makes an attempt: the read is done, the write is not
        /\ Len(run'[1].attempts) > Len(run[1].attempts) =>
              /\ run[1].store_reads = 1
              /\ run[1].store_writes = 0 /\ run'[1].store_writes = 0
        \* a step that writes the store: the run returns with it
        /\ run'[1].store_writes > run[1].store_writes =>
              /\ run'[1].pc = "done"
              /\ run'[1].attempts = run[1].attempts
      ]_vars

\* a run made two attempts and wrote to a store that held other ids
C11_Witness ==
    /\ Done(1)
    /\ run[1].store_reads = 1 /\ run[1].store_writes = 1
    /\ Len(run[1].attempts) >= 2
    /\ ~run[1].write_failed
    /\ store \ Val(run[1].add_arg) # {}

\* position of a channel name in the configured channel list
ChannelIndex(name) ==
    CHOOSE i \in 1..Len(config.alert_channels) : config.alert_channels[i].name = name

\* the decision that attempt number k of a run belongs to, counting the
\* channels of the decisions from decision d on
RECURSIVE DecisionOf(_, _, _)
DecisionOf(decisions, d, k) ==
    IF k <= Len(decisions[d].channels) THEN d
    ELSE DecisionOf(decisions, d + 1, k - Len(decisions[d].channels))

\* C12: the attempts of a run are made decision by decision, the decisions
\* newest event first, and within a decision in the order of the configured
\* channel list.
C12_AttemptsInOrder ==
    LET attempts == run[1].attempts
        decisions == run[1].decisions
        D(k) == DecisionOf(decisions, 1, k)
    IN  \A i, j \in 1..Len(attempts) :
            i < j =>
               /\ D(i) <= D(j)
               /\ attempts[i].earthquake = decisions[D(i)].earthquake
               /\ attempts[i].earthquake.time >= attempts[j].earthquake.time
               /\ D(i) = D(j) => ChannelIndex(attempts[i].channel)
                                    < ChannelIndex(attempts[j].channel)

\* two events of different times were each sent to two channels, the newer
\* one first
C12_Witness ==
    /\ Len(run[1].attempts) = 4
    /\ run[1].attempts[1].earthquake.time > run[1].attempts[4].earthquake.time
    /\ run[1].attempts[1].channel # run[1].attempts[2].channel
    /\ run[1].attempts[1].earthquake.id = "ev1" /\ run[1].attempts[1].earthquake.time = 30

\* every channel name (one absent from the counts included) is refused
BlockedForAll(state) ==
    \A channel_name \in RateChannels \cup {"whatsapp"} :
        ~check_rate_limit(channel_name, state, limiter.config).allowed

AtGlobalLimit ==
    /\ limiter.config.max_alerts_per_run > 0
    /\ limiter.state.total_alerts >= limiter.config.max_alerts_per_run

\* no channel name is refused for the global reason
NoGlobalReason(state) ==
    \A channel_name \in RateChannels \cup {"whatsapp"} :
        check_rate_limit(channel_name, state, limiter.config).reason
            # GlobalReason(state, limiter.config)

\* C13: from a state with total_alerts >= max_alerts_per_run > 0 on, whatever
\* alerts are recorded, check_rate_limit refuses every channel name; with
\* max_alerts_per_run = 0 no state is ever refused for the global reason.
C13_GlobalLimitStaysReached ==
    [][ /\ AtGlobalLimit =>
              /\ BlockedForAll(limiter.state)
              /\ BlockedForAll(limiter'.state)
        /\ limiter.config.max_alerts_per_run = 0 =>
              /\ NoGlobalReason(limiter.state)
              /\ NoGlobalReason(limiter'.state)
      ]_vars

\* an alert was recorded on a state already at the global limit, by a
\* configuration without a per-channel limit
C13_Witness ==
    /\ limiter.last.op = "record_alert"
    /\ limiter.config.max_alerts_per_run > 0
    /\ limiter.config.max_alerts_per_channel = 0
    /\ limiter.last.before.total_alerts >= limiter.config.max_alerts_per_run
    /\ limiter.last.channel_name \notin DOMAIN limiter.last.before.alerts_per_channel

\* C14: check_rate_limit refuses exactly when the global limit is set and
\* reached or the channel's limit is set and reached by the channel's count
\* (0 when absent); the global reason wins when both hold.
C14_CheckRateLimit ==
    limiter.last.op = "check_rate_limit" =>
        LET checked == limiter.last
            N == limiter.config.max_alerts_per_run
            M == limiter.config.max_alerts_per_channel
            count == IF checked.channel_name \in DOMAIN checked.state.alerts_per_channel
                     THEN checked.state.alerts_per_channel[checked.channel_name]
                     ELSE 0
            global == N > 0 /\ checked.state.total_alerts >= N
            channel == M > 0 /\ count >= M
        IN  /\ checked.result.allowed <=> ~(global \/ channel)
            /\ global => checked.result.reason[1][1] = "Global limit exceeded"
            /\ (channel /\ ~global) =>
                   checked.result.reason[1][1] = "Channel limit exceeded for"
            /\ checked.result.allowed => checked.result.reason = None

\* a check on a state that has reached both limits
C14_Witness ==
    /\ limiter.last.op = "check_rate_limit"
    /\ limiter.config.max_alerts_per_run > 0
    /\ limiter.last.state.total_alerts >= limiter.config.max_alerts_per_run
    /\ limiter.config.max_alerts_per_channel > 0
    /\ limiter.last.channel_name \in DOMAIN limiter.last.state.alerts_per_channel
    /\ limiter.last.state.alerts_per_channel[limiter.last.channel_name]
          >= limiter.config.max_alerts_per_channel
    /\ ~limiter.last.result.allowed

\* C15: record_alert returns a state with the total and the named channel's
\* count one greater (1 for an absent channel), the other counts as they
\* were, and leaves its argument as it was.
C15_RecordAlert ==
    limiter.last.op = "record_alert" =>
        LET recorded == limiter.last
            old == recorded.before.alerts_per_channel
            new == recorded.returned.alerts_per_channel
        IN  /\ recorded.returned.total_alerts = recorded.before.total_alerts + 1
            /\ DOMAIN new = DOMAIN old \cup {recorded.channel_name}
            /\ new[recorded.channel_name] =
                  (IF recorded.channel_name \in DOMAIN old
                   THEN old[recorded.channel_name] ELSE 0) + 1
            /\ \A other \in DOMAIN old \ {recorded.channel_name} : new[other] = old[other]
            /\ recorded.state = recorded.before

\* an alert was recorded for a channel absent from the counts, which held
\* another channel
C15_Witness ==
    /\ limiter.last.op = "record_alert"
    /\ limiter.last.channel_name \notin DOMAIN limiter.last.before.alerts_per_channel
    /\ DOMAIN limiter.last.before.alerts_per_channel # {}
    /\ limiter.last.returned.alerts_per_channel[limiter.last.channel_name] = 1

\* C16: when the tsunami override (alert_on_tsunami and the event's tsunami
\* flag) or the felt override (alert_on_felt and felt, 0 when absent, at
\* least felt_threshold) holds, evaluate_rule is matches_location_rule,
\* whatever the magnitude; otherwise it is magnitude and location.
C16_OverrideSkipsMagnitude ==
    call.op = "evaluate_rule" =>
        LET e == call.earthquake
            rule == call.rule
            felt == IF e.felt = None THEN 0 ELSE e.felt[1]
            override == \/ rule.alert_on_tsunami /\ e.tsunami
                        \/ rule.alert_on_felt /\ felt >= rule.felt_threshold
        IN  call.result =
               IF override THEN matches_location_rule(e, rule)
               ELSE matches_magnitude_rule(e, rule) /\ matches_location_rule(e, rule)

\* an event below the minimum magnitude, without tsunami flag, whose felt
\* reports equal the threshold, matched a rule with a location restriction
C16_Witness ==
    /\ call.op = "evaluate_rule"
    /\ call.earthquake.magnitude < call.rule.min_magnitude
    /\ ~call.earthquake.tsunami
    /\ call.rule.alert_on_felt
    /\ call.earthquake.felt = Some(call.rule.felt_threshold)
    /\ call.rule.bounds # None
    /\ call.result

\* the n-th smallest member of a set of numbers
Nth(S, n) == CHOOSE x \in S : Cardinality({y \in S : y < x}) = n - 1

\* C17: make_alert_decisions returns one decision per event that matches at
\* least one channel, in the order of the events; the channels of a decision
\* are the configured channels whose rule evaluates true for the event, in
\* configuration order; an event that matches no channel has no decision.
C17_DecisionsPerMatchingEvent ==
    call.op = "make_alert_decisions" =>
        LET earthquakes == call.earthquakes
            channels == call.channels
            Matching(e) == {i \in 1..Len(channels) : evaluate_rule(e, channels[i].rules)}
            kept == {k \in 1..Len(earthquakes) : Matching(earthquakes[k]) # {}}
        IN  /\ Len(call.result) = Cardinality(kept)
            /\ \A n \in 1..Len(call.result) :
                  LET e == earthquakes[Nth(kept, n)]
                  IN  /\ call.result[n].earthquake = e
                      /\ Len(call.result[n].channels) = Cardinality(Matching(e))
                      /\ \A m \in 1..Len(call.result[n].channels) :
                            call.result[n].channels[m] = channels[Nth(Matching(e), m)]

\* of two events the first matches no channel and the second matches only
\* the second of three channels
C17_Witness ==
    /\ call.op = "make_alert_decisions"
    /\ Len(call.earthquakes) = 2 /\ Len(call.channels) = 3
    /\ Len(call.result) = 1
    /\ call.result[1].earthquake = call.earthquakes[2]
    /\ call.result[1].channels = <<call.channels[2]>>

\* C18: filter_already_alerted(E, S) is the events of E whose id is not in
\* S, each as often as it is in E, in the order of E.
C18_FilterKeepsUnseenInOrder ==
    call.op = "filter_already_alerted" =>
        LET E == call.earthquakes
            unseen == {k \in 1..Len(E) : E[k].id \notin call.already_alerted_ids}
        IN  /\ Len(call.result) = Cardinality(unseen)
            /\ \A n \in 1..Len(call.result) : call.result[n] = E[Nth(unseen, n)]

\* of two events the first is seen and the second is not, and the seen set
\* holds an id that is not in the list
C18_Witness ==
    /\ call.op = "filter_already_alerted"
    /\ Len(call.earthquakes) = 2
    /\ call.earthquakes[1].id \in call.already_alerted_ids
    /\ call.earthquakes[2].id \notin call.already_alerted_ids
    /\ Cardinality(call.already_alerted_ids) = 2
    /\ call.result = <<call.earthquakes[2]>>

\* C19: the set compute_ids_to_expire returns is a subset of stored_ids and
\* holds no id of current_earthquake_ids.
C19_ExpiredAreStoredNotCurrent ==
    call.op = "compute_ids_to_expire" =>
        /\ call.result \subseteq call.stored_ids
        /\ call.result \cap call.current_earthquake_ids = {}

\* the store is over the limit and some stored ids are current: an id is
\* expired, none of them current
C19_Witness ==
    /\ call.op = "compute_ids_to_expire"
    /\ Cardinality(call.stored_ids) > call.max_stored
    /\ call.stored_ids \cap call.current_earthquake_ids # {}
    /\ call.result # {}

\* C20 (as stated): nothing is expired when len(stored_ids) <= max_stored;
\* otherwise exactly len(stored_ids) - max_stored ids are, all of them
\* stored ids outside the current batch.
C20_ExpiresExactlyTheExcess ==
    call.op = "compute_ids_to_expire" =>
        IF Cardinality(call.stored_ids) <= call.max_stored
        THEN call.result = {}
        ELSE /\ Cardinality(call.result) = Cardinality(call.stored_ids) - call.max_stored
             /\ call.result \subseteq call.stored_ids \ call.current_earthquake_ids

\* C20 (amended): over the limit, the number of expired ids is the excess
\* len(stored_ids) - max_stored or the number of stored ids outside the
\* current batch, whichever is smaller.
C20_ExpiresExcessOrPool ==
    call.op = "compute_ids_to_expire" =>
        LET pool == call.stored_ids \ call.current_earthquake_ids
            excess == Cardinality(call.stored_ids) - call.max_stored
        IN  IF Cardinality(call.stored_ids) <= call.max_stored
            THEN call.result = {}
            ELSE /\ call.result \subseteq pool
                 /\ Cardinality(call.result) =
                       IF excess <= Cardinality(pool) THEN excess ELSE Cardinality(pool)

\* the excess is two and only one stored id is outside the current batch
C20_Witness ==
    /\ call.op = "compute_ids_to_expire"
    /\ Cardinality(call.stored_ids) - call.max_stored = 2
    /\ Cardinality(call.stored_ids \ call.current_earthquake_ids) = 1
    /\ Cardinality(call.result) = 1

\* the configured channel of a name
ChannelNamed(name) == config.alert_channels[ChannelIndex(name)]

\* a twitter or whatsapp channel whose credentials cannot be used
Defective(channel) ==
    \/ /\ channel.channel_type = "twitter"
       /\ \/ channel.credentials = None
          \/ ~(TwitterKeys \subseteq channel.credentials[1].keys)
    \/ /\ channel.channel_type = "whatsapp"
       /\ \/ channel.credentials = None
          \/ ~(WhatsAppKeys \subseteq channel.credentials[1].keys)
          \/ channel.credentials[1].to_numbers = <<>>

C22_TweetSentWithoutMap ==
    (/\ call.op = "_send_twitter_alert"
     /\ call.channel.credentials # None
     /\ TwitterKeys \subseteq call.channel.credentials[1].keys) =>
        LET tweets == {i \in 1..Len(call.calls) : call.calls[i].method = "send_tweet"}
        IN  /\ Cardinality(tweets) = 1
            /\ \A i \in tweets :
                  /\ i = Len(call.calls)
                  /\ ~(call.io.map_ok /\ call.io.upload_ok) => call.calls[i].media_ids = None
                  /\ (call.io.map_ok /\ call.io.upload_ok) => call.calls[i].media_ids # None
            /\ call.result.success = (call.io.http = "200")

\* the map was generated, the upload failed and the tweet was posted
C22_Witness ==
    /\ call.op = "_send_twitter_alert"
    /\ call.io.map_ok /\ ~call.io.upload_ok
    /\ Len(call.calls) = 3
    /\ call.calls[3].method = "send_tweet" /\ call.calls[3].media_ids = None
    /\ call.result.success

\* C23 (as stated): a run in which a delivery attempt failed is answered
\* with status "partial_failure" and code 207, not "success" and 200.
C23_FailedDeliveryReportedPartial ==
    (Done(1) /\ Failed(run[1].attempts) # <<>>) =>
        /\ Val(run[1].response).status = "partial_failure"
        /\ Val(run[1].response).status_code = 207

\* C24: the tweet format_twitter_message returns is at most 280 characters
\* long, for every event and nearby-POI list, however long the place, the
\* POI name and the detail URL are.
C24_TweetWithinLimit ==
    call.op = "format_twitter_message" => call.result <= TweetLimit

\* a place string of 300 characters: the headline was cut and the tweet is
\* exactly 280 characters long
C24_Witness ==
    /\ call.op = "format_twitter_message"
    /\ call.earthquake.place = 300
    /\ call.nearby_pois # <<>> /\ call.nearby_pois[1][1].name = 231
    /\ call.result = TweetLimit

\* C25: send_to_group and send_tweets send in the order of their input and
\* return one response per attempted send.  Without stop_on_error every
\* input is attempted; with stop_on_error the attempts are the prefix of the
\* input up to and including the first failed send, and nothing after it is
\* attempted.
BatchCall == call.op \in {"send_to_group", "send_tweets"}

C25_BatchSendsInOrder ==
    BatchCall =>
        LET n == Len(call.responses)
        IN  /\ n <= Len(call.inputs)
            /\ call.sends = SubSeq(call.inputs, 1, n)
            /\ ~call.stop_on_error => n = Len(call.inputs)
            /\ call.stop_on_error =>
                 /\ \A i \in 1..(n - 1) : call.responses[i].success
                 /\ n < Len(call.inputs) => ~call.responses[n].success

\* a batch of three tweets with stop_on_error whose second tweet fails: two
\* responses, the third tweet never sent
C25_Witness ==
    /\ call.op = "send_tweets"
    /\ call.stop_on_error
    /\ Len(call.inputs) = 3
    /\ call.outcomes[1] = "200" /\ call.outcomes[2] = "Timeout"
    /\ Len(call.responses) = 2
    /\ call.sends = <<call.inputs[1], call.inputs[2]>>

\* C26: when the read of the store fails, get_alerted_ids returns the empty
\* set and the run goes on with every fetched event taken as new: nothing is
\* filtered out, the rules are evaluated over all fetched events, and the
\* result of the run counts all of them as new.
C26_ReadFailureTreatsAllAsNew ==
    run[1].read_raised =>
        /\ run[1].alerted_ids = {}
        /\ run[1].new_earthquakes = run[1].earthquakes
        /\ run[1].decisions = make_alert_decisions(run[1].earthquakes, config.alert_channels)
        /\ run[1].pc \in {"sending", "storing", "done"}
        /\ Done(1) => /\ Val(run[1].result).earthquakes_new = Len(run[1].earthquakes)
                      /\ Val(run[1].result).errors # <<"Failed to fetch earthquakes">>

\* the read failed in a run whose feed holds an event already in the store,
\* and the event was delivered again
C26_Witness ==
    /\ Done(1) /\ run[1].read_raised
    /\ \E i \in 1..Len(run[1].alerts_sent) :
          /\ run[1].alerts_sent[i].earthquake.id \in store
          /\ Pair(run[1].alerts_sent[i]) \in delivered_before

\* C27 (as stated): within one run no (event id, channel) pair has more than
\* one delivery attempt, also when several records of the parsed feed carry
\* the same id.
C27_OneAttemptPerPairInRun ==
    \A pair \in AllPairs : Count(run[1].attempts, pair) <= 1

RECURSIVE SumOfCounts(_, _)
SumOfCounts(dict, keys) ==
    IF keys = {} THEN 0
    ELSE LET k == CHOOSE x \in keys : TRUE
         IN  dict[k] + SumOfCounts(dict, keys \ {k})

\* C28: in every RateLimitState reached from the initial state (total 0, no
\* counts) by record_alert, total_alerts is the sum of the per-channel counts
\* and every recorded count is at least 1.
C28_TotalIsSumOfCounts ==
    LET state == limiter.state
    IN  /\ state.total_alerts
             = SumOfCounts(state.alerts_per_channel, DOMAIN state.alerts_per_channel)
        /\ \A k \in DOMAIN state.alerts_per_channel : state.alerts_per_channel[k] >= 1

\* three alerts recorded, two of them for one channel
C28_Witness ==
    /\ limiter.last.op = "record_alert"
    /\ limiter.state.total_alerts = 3
    /\ DOMAIN limiter.state.alerts_per_channel = RateChannels
    /\ limiter.state.alerts_per_channel["slack"] = 2

\* C29: when every delivery attempt for an event failed in a run, the run
\* does not hand the event's id to the store; and in the run that follows,
\* if the feed still holds the event and the ids read from the store do not
\* hold its id, a delivery attempt is made again for every channel whose
\* rules match the event.
C29_FailedEventIsRetried ==
    /\ run[1].pc \in {"storing", "done"} =>
          \A id \in AllFailed(run[1]) :
              /\ id \notin compute_ids_to_store(run[1].successfully_alerted)
              /\ IsNone(run[1].add_arg) \/ id \notin Val(run[1].add_arg)
    /\ Done(1) /\ ~run[1].fetch_raised =>
          \A i \in 1..Len(run[1].earthquakes) :
              LET earthquake == run[1].earthquakes[i]
                  matching == evaluate_rules(earthquake, config.alert_channels)
              IN  earthquake.id \in run[1].failed_before \ run[1].alerted_ids =>
                      \A c \in 1..Len(matching) :
                          \E k \in 1..Len(run[1].attempts) :
                              /\ run[1].attempts[k].earthquake = earthquake
                              /\ run[1].attempts[k].channel = matching[c].name

\* both deliveries of an event failed in the run before; this run fetched
\* the event again and has attempted both channels once more
C29_Witness ==
    /\ Done(1) /\ ~run[1].read_raised
    /\ \E id \in run[1].failed_before :
          /\ id \notin store
          /\ Cardinality({k \in 1..Len(run[1].attempts) :
                             run[1].attempts[k].earthquake.id = id}) >= 2

\* the locales active in the collection, as _get_locales returns them
ActiveLocales ==
    [slug \in {d \in DOMAIN api.locales : api.locales[d].is_active}
        |-> [name |-> api.locales[slug].name]]

\* C30 (as stated): a successful admin mutation of a locale leaves the cache
\* invalidated, and the _get_locales call that follows it re-reads Firestore
\* and, when Firestore is reachable, returns exactly the active locales, or
\* the fallback locales when none is active; it never returns an empty
\* mapping.
C30_LocalesFreshAfterMutation ==
    /\ api # NoCall /\ api.last # NoCall /\ api.last.op \in AdminOps /\ api.last.status = 200
          => ~_is_cache_valid(api)
    /\ api # NoCall /\ api.last # NoCall /\ api.last.op = "_get_locales"
          => /\ DOMAIN api.last.returned # {}
             /\ api.last.after_mutation =>
                   /\ api.last.refreshed
                   /\ api.last.reachable =>
                         api.last.returned = IF DOMAIN ActiveLocales # {}
                                             THEN ActiveLocales
                                             ELSE FALLBACK_LOCALES

====
